---- MODULE Spec2Model ----
(***************************************************************************)
(* nes-header-decoder (src/main.go): one run of the process, from init()   *)
(* through main().  The state is the process's globals and locals, its     *)
(* position, its exit code and the ordered record of what it printed and   *)
(* which file system calls it made.  The command line and the answers of   *)
(* the file system are the inputs.                                         *)
(***************************************************************************)
EXTENDS Integers, Sequences, FiniteSets, TLC

VARIABLES
    args,            \* os.Args[1:], the command line after the program name
    pc,              \* position of the process in init()/main()
    isset_debug,     \* global isset_debug
    isset_filename,  \* global isset_filename
    show_version,    \* init's local show_version
    show_help,       \* init's local show_help
    file,            \* content of the file behind the handle f, as the read met it
    data,            \* main's local data: the buffer readNumBytes returned
    header,          \* main's local header
    report,          \* the field lines printed after "Info: Decoded Header."
    trace,           \* what the process printed and which calls it made, in order
    exitCode         \* the process's exit status, Running until it ends

vars == <<args, pc, isset_debug, isset_filename, show_version, show_help,
          file, data, header, report, trace, exitCode>>

-----------------------------------------------------------------------------
(* Bounds of the model *)

MaxArgs == 3
MaxFileLen == 17

-----------------------------------------------------------------------------
(* Program constants *)

HeaderSize == 16
NoArgsExitCode == 1
NoFilenameExitCode == 2
NotExistExitCodeCopied == NoFilenameExitCode
NotExistExitCode == 3
HelpExitCode == 0
FatalExitCode == 1
Running == 0 - 1

ValidMagic == <<78, 69, 83, 26>>

Range(s) == {s[i] : i \in 1..Len(s)}

Min(a, b) == IF a < b THEN a ELSE b

-----------------------------------------------------------------------------
(* Inputs: command lines and file contents *)

ArgTokens == {"-h", "-v", "-d", "zelda.nes", "mario.nes"}

ArgLists == UNION {[1..n -> ArgTokens] : n \in 0..MaxArgs}

MagicSamples == {ValidMagic, <<110, 101, 115, 26>>, <<78, 69, 83, 0>>, <<0, 0, 0, 0>>}
UnitSamples == {0, 1, 2, 16, 32, 255}
FlagSamples == {0, 1, 16, 242}

Image(m, prg, chr, f6, f7, ram, f9, f10, pad) ==
    m \o <<prg, chr, f6, f7, ram, f9, f10>> \o [i \in 1..5 |-> pad]

ExampleImage == Image(ValidMagic, 2, 1, 1, 0, 0, 0, 0, 0)

Images ==
    {Image(m, 2, 1, 1, 0, 0, 0, 0, 0) : m \in MagicSamples}
    \cup {Image(ValidMagic, p, c, 1, 0, 0, 0, 0, 0) : p \in UnitSamples, c \in UnitSamples}
    \cup {Image(ValidMagic, 2, 1, f6, f7, 0, 0, 0, 0) : f6 \in FlagSamples, f7 \in FlagSamples}
    \cup {Image(ValidMagic, 2, 1, 1, 0, r, 0, 0, 0) : r \in UnitSamples}
    \cup {Image(ValidMagic, 2, 1, 1, 0, 0, f9, f10, pad) : f9 \in {0, 1}, f10 \in {0, 16}, pad \in {0, 7}}

\* a file of any length 0..MaxFileLen: a prefix of an image followed by payload bytes
Payload(n) == [i \in 1..n |-> 170]

Prefixes(img) ==
    {SubSeq(img \o Payload(MaxFileLen - Min(MaxFileLen, HeaderSize)), 1, n) : n \in 0..MaxFileLen}

FileContents ==
    Images \cup Prefixes(ExampleImage) \cup Prefixes(Image(<<0, 0, 0, 0>>, 255, 255, 255, 255, 255, 1, 1, 7))

StatResults == {"ok", "notexist", "eacces"}
OpenResults == {"ok", "eacces"}
FstatResults == {"ok", "eio"}

-----------------------------------------------------------------------------
(* Pure functions of the program *)

ZeroHeader ==
    [Magic |-> <<0, 0, 0, 0>>, PRGROMSize |-> 0, CHRROMSize |-> 0, Flags6 |-> 0,
     Flags7 |-> 0, PRGRAMSize |-> 0, Flags9 |-> 0, Flags10 |-> 0,
     Zero |-> <<0, 0, 0, 0, 0>>]

\* check_error's test: a non-nil error ends the run
ErrIgnored(err) == FALSE
IsError(err) == err # "nil"

\* os.IsNotExist applied to os.Stat's error
NotExistIgnored(res) == FALSE
IsNotExist(res) == res = "notexist"

\* the flag loop of init(): the state of (debug, filename, version, help)
\* after the arguments a[1..n], in order
RECURSIVE ParseFlags(_, _)
ParseFlags(a, n) ==
    IF n = 0
    THEN [debug |-> FALSE, filename |-> "", version |-> FALSE, help |-> FALSE]
    ELSE LET p == ParseFlags(a, n - 1) IN
         CASE a[n] = "-h" -> [p EXCEPT !.help = TRUE]
           [] a[n] = "-v" -> [p EXCEPT !.version = TRUE]
           [] a[n] = "-d" -> [p EXCEPT !.debug = TRUE]
           [] OTHER       -> [p EXCEPT !.filename = a[n]]

\* "-h" met while it is the only argument: print_help and os.Exit(0)
HelpOnly(a) == Len(a) = 1 /\ a[1] = "-h"

\* f.Read(bytes) on a buffer of numBytes zero bytes, for a regular file of
\* the given content read from offset 0; ioerr is a failing read(2)
FileRead(content, numBytes, ioerr) ==
    IF ioerr
    THEN [n |-> 0, err |-> "EIO", bytes |-> [i \in 1..numBytes |-> 0]]
    ELSE IF Len(content) = 0
    THEN [n |-> 0, err |-> "EOF", bytes |-> [i \in 1..numBytes |-> 0]]
    ELSE LET n == Min(Len(content), numBytes) IN
         [n |-> n, err |-> "nil",
          bytes |-> [i \in 1..numBytes |-> IF i <= n THEN content[i] ELSE 0]]

\* binary.Read(buf, binary.LittleEndian, &header) over the struct NesHeader
BinaryReadSwapped(b) ==
    IF Len(b) < HeaderSize
    THEN [err |-> "unexpected EOF", header |-> ZeroHeader]
    ELSE [err |-> "nil",
          header |-> [Magic |-> SubSeq(b, 1, 4), PRGROMSize |-> b[6], CHRROMSize |-> b[5],
                      Flags6 |-> b[7], Flags7 |-> b[8], PRGRAMSize |-> b[9],
                      Flags9 |-> b[10], Flags10 |-> b[11], Zero |-> SubSeq(b, 12, 16)]]
BinaryRead(b) ==
    IF Len(b) < HeaderSize
    THEN [err |-> IF Len(b) = 0 THEN "EOF" ELSE "unexpected EOF", header |-> ZeroHeader]
    ELSE [err |-> "nil",
          header |-> [Magic |-> SubSeq(b, 1, 4), PRGROMSize |-> b[5], CHRROMSize |-> b[6],
                      Flags6 |-> b[7], Flags7 |-> b[8], PRGRAMSize |-> b[9],
                      Flags9 |-> b[10], Flags10 |-> b[11], Zero |-> SubSeq(b, 12, 16)]]

\* uint8 * constant in Go: the product is a uint8
MulUint8(x, k) == (x * k) % 256

\* %08b of a uint8: eight binary digits, most significant first
Fmt08b(x) == [i \in 1..8 |-> (x \div (2 ^ (8 - i))) % 2]

\* the value printed on the line "Flags 7: ... - (Mapper)"
MapperAssembled(h) == (h.Flags7 \div 16) * 16 + (h.Flags6 \div 16)
MapperValue(h) == h.Flags7

\* the lines printed after "Info: Decoded Header."
ReportLines(h) ==
    [Magic |-> h.Magic,
     PRGROM |-> MulUint8(h.PRGROMSize, 16),
     CHRROM |-> MulUint8(h.CHRROMSize, 8),
     Flags6 |-> Fmt08b(h.Flags6),
     Flags7 |-> Fmt08b(MapperValue(h)),
     Flags8 |-> MulUint8(h.PRGRAMSize, 8),
     Flags9 |-> Fmt08b(h.Flags9),
     Flags10 |-> Fmt08b(h.Flags10)]

-----------------------------------------------------------------------------
(* The process *)

Init ==
    /\ args \in ArgLists
    /\ pc = "init"
    /\ isset_debug = FALSE
    /\ isset_filename = ""
    /\ show_version = FALSE
    /\ show_help = FALSE
    /\ file = <<>>
    /\ data = <<>>
    /\ header = ZeroHeader
    /\ report = <<>>
    /\ trace = <<>>
    /\ exitCode = Running

\* os.Exit(code) after printing the lines in msgs
Exit(msgs, code) ==
    /\ trace' = trace \o msgs
    /\ pc' = "exited"
    /\ exitCode' = code

\* check_error with a non-nil error: the message, the error, log.Fatalln
Fatal(msgs, msg) == Exit(msgs \o <<msg, "err", "log.Fatalln">>, FatalExitCode)

\* init(): the argument count check and the banner
InitCheckArgs ==
    /\ pc = "init"
    /\ IF Len(args) + 1 < 2
       THEN Exit(<<"ERROR: No Args", "help_short">>, NoArgsExitCode)
       ELSE /\ trace' = Append(trace, "banner")
            /\ pc' = "flags"
            /\ UNCHANGED exitCode
    /\ UNCHANGED <<args, isset_debug, isset_filename, show_version, show_help,
                   file, data, header, report>>

\* init(): the flag loop and the debug listing of the arguments
InitParseFlags ==
    /\ pc = "flags"
    /\ IF HelpOnly(args)
       THEN /\ Exit(<<"help">>, HelpExitCode)
            /\ UNCHANGED <<isset_debug, isset_filename, show_version, show_help>>
       ELSE LET p == ParseFlags(args, Len(args)) IN
            /\ isset_debug' = p.debug
            /\ isset_filename' = p.filename
            /\ show_version' = p.version
            /\ show_help' = p.help
            /\ trace' = trace \o (IF p.debug THEN [i \in 1..(Len(args) + 1) |-> "debug: arg"]
                                             ELSE <<>>)
            /\ pc' = "filename"
            /\ UNCHANGED exitCode
    /\ UNCHANGED <<args, file, data, header, report>>

\* init(): the filename check
InitCheckFilename ==
    /\ pc = "filename"
    /\ IF isset_filename = ""
       THEN Exit(<<"ERROR: No Filename", "help_short">>, NoFilenameExitCode)
       ELSE /\ pc' = "show"
            /\ UNCHANGED <<trace, exitCode>>
    /\ UNCHANGED <<args, isset_debug, isset_filename, show_version, show_help,
                   file, data, header, report>>

\* init(): version, help and debug lines
InitShow ==
    /\ pc = "show"
    /\ trace' = trace \o (IF show_version THEN <<"version">> ELSE <<>>)
                      \o (IF show_help THEN <<"help">> ELSE <<>>)
                      \o (IF isset_debug THEN <<"debug: enabled">> ELSE <<>>)
    /\ pc' = "main"
    /\ UNCHANGED <<args, isset_debug, isset_filename, show_version, show_help,
                   file, data, header, report, exitCode>>

\* main(): the announcement and the file-exists check
MainStat ==
    /\ pc = "main"
    /\ \E res \in StatResults :
         LET announce == <<"rule", "Info: Opening File">>
                         \o (IF isset_debug THEN <<"debug: filename">> ELSE <<>>)
                         \o <<"stat: " \o res>>
         IN IF IsNotExist(res)
            THEN Exit(announce \o <<"ERROR: File Does Not Exist">>, NotExistExitCode)
            ELSE /\ trace' = trace \o announce \o <<"Info: File Exists">>
                 /\ pc' = "open"
                 /\ UNCHANGED exitCode
    /\ UNCHANGED <<args, isset_debug, isset_filename, show_version, show_help,
                   file, data, header, report>>

\* the error value of a call whose outcome the file system chose
ErrOf(res) == IF res = "ok" THEN "nil" ELSE res

\* main(): os.Open and f.Stat
MainOpen ==
    /\ pc = "open"
    /\ \E res \in OpenResults, fstat \in FstatResults :
         IF IsError(ErrOf(res))
         THEN Fatal(<<"open: " \o res>>, "ERROR: Opening File")
         ELSE IF IsError(ErrOf(fstat))
         THEN Fatal(<<"open: " \o res, "fstat: " \o fstat>>, "ERROR: Getting File Size")
         ELSE /\ trace' = trace \o <<"open: " \o res, "fstat: " \o fstat>>
                               \o (IF isset_debug THEN <<"debug: file size">> ELSE <<>>)
              /\ pc' = "read"
              /\ UNCHANGED exitCode
    /\ UNCHANGED <<args, isset_debug, isset_filename, show_version, show_help,
                   file, data, header, report>>

\* main(): readNumBytes(f, unsafe.Sizeof(header))
MainReadHeader ==
    /\ pc = "read"
    /\ \E content \in FileContents, ioerr \in BOOLEAN :
         LET r == FileRead(content, HeaderSize, ioerr)
             call == "read: " \o (IF r.err = "nil" THEN "ok" ELSE r.err)
         IN
         /\ file' = content
         /\ IF IsError(r.err)
            THEN /\ Fatal(<<call>>, "ERROR: Reading File")
                 /\ UNCHANGED data
            ELSE /\ data' = r.bytes
                 /\ trace' = Append(trace, call)
                 /\ pc' = "decode"
                 /\ UNCHANGED exitCode
    /\ UNCHANGED <<args, isset_debug, isset_filename, show_version, show_help,
                   header, report>>

\* main(): binary.Read of the buffer into header
MainDecode ==
    /\ pc = "decode"
    /\ LET r == BinaryRead(data) IN
       IF IsError(r.err)
       THEN /\ Fatal(<<>>, "ERROR: Decoding Header")
            /\ UNCHANGED header
       ELSE /\ header' = r.header
            /\ pc' = "report"
            /\ UNCHANGED <<trace, exitCode>>
    /\ UNCHANGED <<args, isset_debug, isset_filename, show_version, show_help,
                   file, data, report>>

\* main(): the debug dump, the report, and the return from main
MainReport ==
    /\ pc = "report"
    /\ report' = <<ReportLines(header)>>
    /\ trace' = trace \o (IF isset_debug THEN <<"debug: dump">> ELSE <<>>)
                      \o <<"Info: Decoded Header">>
    /\ pc' = "exited"
    /\ exitCode' = 0
    /\ UNCHANGED <<args, isset_debug, isset_filename, show_version, show_help,
                   file, data, header>>

Next ==
    \/ InitCheckArgs
    \/ InitParseFlags
    \/ InitCheckFilename
    \/ InitShow
    \/ MainStat
    \/ MainOpen
    \/ MainReadHeader
    \/ MainDecode
    \/ MainReport

Spec == Init /\ [][Next]_vars

-----------------------------------------------------------------------------
(* Observations on a run *)

Printed(line) == line \in Range(trace)

Reported == Printed("Info: Decoded Header")

Exited == pc = "exited"

ReadReturned == \E i \in 1..Len(trace) : trace[i] \in {"read: ok", "read: EIO", "read: EOF"}

ReadFailed == \E i \in 1..Len(trace) : trace[i] \in {"read: EIO", "read: EOF"}

\* the place in the trace of the first entry among lines, 0 when there is none
FirstIndex(lines) ==
    LET at == {i \in 1..Len(trace) : trace[i] \in lines}
    IN IF at = {} THEN 0 ELSE CHOOSE i \in at : \A j \in at : i <= j

\* the file read is a whole header carrying the format's magic tag
WellFormedFile == Len(file) >= 16 /\ SubSeq(file, 1, 4) = <<78, 69, 83, 26>>

\* the value of eight binary digits, most significant first
BinValue(bits) == bits[1] * 128 + bits[2] * 64 + bits[3] * 32 + bits[4] * 16
                  + bits[5] * 8 + bits[6] * 4 + bits[7] * 2 + bits[8]

SpecExample == <<78, 69, 83, 26, 2, 1, 1, 0, 0, 0, 0, 0, 0, 0, 0, 0>>

-----------------------------------------------------------------------------
(* Claims *)

\* C1: once the read has met a file of fewer than 16 bytes, no decoded-header
\* report is printed and the run ends with an error (a nonzero exit code).
C1_TruncatedInputRejected ==
    (ReadReturned /\ Len(file) < 16) =>
        /\ ~Reported
        /\ Exited => exitCode # 0

\* C2: once the read has met a file of at least 16 bytes whose first four
\* bytes are not 4E 45 53 1A, no decoded-header report is printed and the
\* run ends with an error (a nonzero exit code).
C2_InvalidMagicRejected ==
    (ReadReturned /\ Len(file) >= 16 /\ SubSeq(file, 1, 4) # <<78, 69, 83, 26>>) =>
        /\ ~Reported
        /\ Exited => exitCode # 0

\* C3: the reported PRG ROM size is the integer product of byte 4 and 16 and
\* the reported CHR ROM size the integer product of byte 5 and 8, never
\* reduced modulo 2^8 (stated for reports of a whole, well-tagged header).
C3_RomSizesAreTrueProducts ==
    (Reported /\ WellFormedFile) =>
        /\ report[1].PRGROM = header.PRGROMSize * 16
        /\ report[1].CHRROM = header.CHRROMSize * 8

\* C4: for a file of at least 16 bytes that is decoded, every header field is
\* the byte (or bytes) of the file at the field's fixed offset, and the
\* example 4E 45 53 1A 02 01 01 00 00 .. 00 decodes to 2, 1, 0x01, 0x00, 0
\* with reported sizes 32 KB and 8 KB.
C4_FieldsAtFixedOffsets ==
    ((pc = "report" \/ Reported) /\ Len(file) >= 16) =>
        /\ header.Magic = <<file[1], file[2], file[3], file[4]>>
        /\ header.PRGROMSize = file[5]
        /\ header.CHRROMSize = file[6]
        /\ header.Flags6 = file[7]
        /\ header.Flags7 = file[8]
        /\ header.PRGRAMSize = file[9]
        /\ header.Flags9 = file[10]
        /\ header.Flags10 = file[11]
        /\ header.Zero = <<file[12], file[13], file[14], file[15], file[16]>>
        /\ file = SpecExample =>
              /\ header.PRGROMSize = 2 /\ header.CHRROMSize = 1
              /\ header.Flags6 = 1 /\ header.Flags7 = 0 /\ header.PRGRAMSize = 0
              /\ Reported => (report[1].PRGROM = 32 /\ report[1].CHRROM = 8)

C4_Witness ==
    /\ Reported
    /\ file = SpecExample
    /\ report[1].PRGROM = 32

\* C5: a header read that returns an error ends the run at once with the
\* read-failure message and the fatal exit code; neither the debug dump nor
\* the decoded-header report is printed.
C5_ReadFailureEndsRun ==
    ReadFailed =>
        /\ Exited
        /\ exitCode = 1
        /\ Printed("ERROR: Reading File")
        /\ ~Printed("debug: dump")
        /\ ~Reported
        /\ report = <<>>

C5_Witness ==
    /\ Printed("read: EIO")
    /\ isset_debug
    /\ Exited

\* C6: the digits printed on the line labelled Mapper are those of header
\* byte 7 (flags7), whatever flags6 is.
C6_MapperIsFlags7 ==
    Reported => BinValue(report[1].Flags7) = data[8]

\* a report whose Mapper line differs from the assembled mapper number
C6_Witness ==
    /\ Reported
    /\ data[7] \div 16 # 0
    /\ BinValue(report[1].Flags7) # (data[8] \div 16) * 16 + (data[7] \div 16)

\* C7: the reported PRG RAM size is the integer product of byte 8 and 8
\* (and so 0 KB, not 8 KB, for byte 8 = 0), stated for reports of a whole,
\* well-tagged header.
C7_PrgRamSizeIsProduct ==
    (Reported /\ WellFormedFile) => report[1].Flags8 = header.PRGRAMSize * 8

\* C8: a run whose arguments include -v has shown the version by the time
\* it has ended.
C8_VersionShownWhenAsked ==
    (Exited /\ "-v" \in Range(args)) => Printed("version")

\* C9 as stated: each of the four failure paths ends with an exit code
\* distinct from the other three, 1, 2 and 3 for the first three.
C9_ExitCodesPairwiseDistinct ==
    Exited =>
        /\ Printed("ERROR: No Args") => exitCode = 1
        /\ Printed("ERROR: No Filename") => exitCode = 2
        /\ Printed("ERROR: File Does Not Exist") => exitCode = 3
        /\ Printed("log.Fatalln") => exitCode \notin {1, 2, 3}

\* C9 as amended: no arguments, no filename and file-not-found end with 1, 2
\* and 3; a failure through check_error ends with 1, the code of the
\* no-arguments path, and differs from the other two.
C9_ExitCodes ==
    Exited =>
        /\ Printed("ERROR: No Args") => exitCode = 1
        /\ Printed("ERROR: No Filename") => exitCode = 2
        /\ Printed("ERROR: File Does Not Exist") => exitCode = 3
        /\ Printed("log.Fatalln") => exitCode = 1

C9_Witness ==
    /\ Exited
    /\ Printed("log.Fatalln")
    /\ Printed("ERROR: Getting File Size")

\* C10: the report is printed only after a filename was selected, the
\* file-exists check passed, the file was opened and the header read returned
\* without error, in that order; a run that ended with a nonzero exit code
\* printed no report; a run whose only argument is -h ends in the flag loop
\* with exit code 0 and no file call.
C10_ReportOnlyAfterAllSteps ==
    /\ (\E i \in 1..Len(trace) : trace[i] \in {"stat: ok", "stat: eacces", "stat: notexist"})
          => (isset_filename # "" /\ isset_filename \in Range(args))
    /\ Reported =>
          LET passed == FirstIndex({"stat: ok", "stat: eacces"})
              opened == FirstIndex({"open: ok"})
              read == FirstIndex({"read: ok"})
              printed == FirstIndex({"Info: Decoded Header"})
          IN /\ 0 < passed /\ passed < opened
             /\ opened < read /\ read < printed
    /\ (Exited /\ exitCode # 0) => ~Reported
    /\ args = <<"-h">> =>
          /\ pc \in {"init", "flags", "exited"}
          /\ Exited => exitCode = 0
          /\ \A i \in 1..Len(trace) : trace[i] \in {"banner", "help"}

C10_Witness ==
    /\ Reported
    /\ Exited
    /\ exitCode = 0
    /\ Len(args) > 1

====
